---- MODULE Spec2Model ----
(***************************************************************************)
(* Model of the IBKR execution core: IBKRConnectionManager                 *)
(* (execution/connection.py), IBKROrderExecutor (execution/executor.py),   *)
(* the OrderRequest/Order value types (execution/models.py) and the        *)
(* AuditLogger (execution/audit.py).                                       *)
(*                                                                         *)
(* The broker session (ib_insync.IB), the risk-check callback and the      *)
(* logging backend are the environment: their results are chosen           *)
(* nondeterministically.  Every `await` of the executor is a point at      *)
(* which the environment (transport drop, broker status update) may act.   *)
(***************************************************************************)
EXTENDS Integers, Sequences, FiniteSets, TLC

VARIABLES
    ib,              \* IBKRConnectionManager._ib: 0 (None) or the index of an IB session
    connected,       \* IBKRConnectionManager._connected
    sessions,        \* the IB() objects alive, by index: "new" | "open" | "closed"
    trades,          \* ib.trades(): the broker's trades of the session, in placement order
    audit,           \* the records emitted by the audit logger, oldest first
    riskConfigured,  \* IBKROrderExecutor.risk_check_callback is not None
    settings,        \* the manager's max_reconnect_attempts and reconnect_backoff_seconds
    call,            \* per caller: the executor operation in progress and its outcome
    started          \* number of executor operations started so far

vars == <<ib, connected, sessions, trades, audit, riskConfigured, settings, call, started>>

----------------------------------------------------------------------------
(* Bounds *)

\* Total number of executor operations started in one behaviour.
MaxCalls == 2

\* Total number of calls made on the connection manager directly in one
\* behaviour: enough for a failed connect(), a repeated one and a question.
MaxManagerCalls == 3

----------------------------------------------------------------------------
(* Values *)

\* The cooperating callers of the executor and the manager: one caller, or
\* two whose calls interleave at the suspension points.
OneCaller == {"c1"}

TwoCallers == {"c1", "c2"}

\* The callers of the behaviour at hand.
Callers == DOMAIN call

\* Python's None for the optional price fields (prices themselves are >= 0).
None == -1

\* Python's None for the optional string fields.
NoneStr == "None"

OrderTypes == {"MARKET", "LIMIT", "STOP", "STOP_LIMIT"}

Sides == {"BUY", "SELL"}

\* Input domains of the requests the callers build.
Symbols == {"AAPL"}

Quantities == {100}

Prices == {None, 250}

ClientOrderIds == {NoneStr, "cid-1"}

\* OrderRequest(...): a frozen dataclass without __post_init__; the
\* constructor stores the fields it is given and validates nothing.
OrderRequest(symbol, quantity, order_type, side, limit_price, stop_price, client_order_id) ==
    [symbol |-> symbol, quantity |-> quantity, order_type |-> order_type,
     side |-> side, limit_price |-> limit_price, stop_price |-> stop_price,
     time_in_force |-> "DAY", account |-> NoneStr,
     client_order_id |-> client_order_id]

\* Every request a caller can construct from the input domains.
Requests ==
    { OrderRequest(s, q, t, d, l, p, c) :
        s \in Symbols, q \in Quantities, t \in OrderTypes, d \in Sides,
        l \in Prices, p \in Prices, c \in ClientOrderIds }

\* The request invariant of the data model: LIMIT and STOP_LIMIT carry a limit
\* price, STOP and STOP_LIMIT carry a stop price.
PriceInvariant(req) ==
    /\ (req.order_type \in {"LIMIT", "STOP_LIMIT"} => req.limit_price # None)
    /\ (req.order_type \in {"STOP", "STOP_LIMIT"} => req.stop_price # None)

NoRequest == [symbol |-> NoneStr]

\* The requests the callers submit: one well-formed request of each kind
\* and every way a request can lack a price its kind requires.
SubmittedRequests ==
    { OrderRequest("AAPL", 100, "MARKET", "BUY", None, None, "cid-1"),
      OrderRequest("AAPL", 100, "LIMIT", "SELL", 250, None, NoneStr),
      OrderRequest("AAPL", 100, "STOP", "SELL", None, 250, "cid-1"),
      OrderRequest("AAPL", 100, "STOP_LIMIT", "BUY", 250, 250, "cid-1"),
      OrderRequest("AAPL", 100, "LIMIT", "BUY", None, None, "cid-1"),
      OrderRequest("AAPL", 100, "STOP", "BUY", None, None, "cid-1"),
      OrderRequest("AAPL", 100, "STOP_LIMIT", "BUY", None, 250, "cid-1"),
      OrderRequest("AAPL", 100, "STOP_LIMIT", "BUY", 250, None, "cid-1"),
      OrderRequest("AAPL", 100, "STOP_LIMIT", "BUY", None, None, NoneStr) }

----------------------------------------------------------------------------
(* Exceptions *)

NoExc == [cls |-> "None"]

\* raise cls(msg) from cause
Raise(cls, msg, cause) == [cls |-> cls, msg |-> msg, cause |-> cause]

\* The error classes the error taxonomy names.
ClassifiedErrors == {"ConnectionError", "RiskCheckError", "OrderRejectedError", "ValueError"}

\* sub occurs in msg as a contiguous run of tokens (Python's `sub in msg`).
Contains(msg, sub) ==
    \E i \in 1..(Len(msg) - Len(sub) + 1) : SubSeq(msg, i, i + Len(sub) - 1) = sub

----------------------------------------------------------------------------
(* Domain snapshots (execution/models.py) and the audit trail *)

NoOrder == [order_id |-> NoneStr]

\* Order(...): the immutable snapshot returned to callers (submitted_at, a
\* wall-clock reading, is left out).
Order(order_id, client_order_id, symbol, quantity, order_type, side, limit_price, stop_price, status, filled_quantity, average_fill_price) ==
    [order_id |-> order_id, client_order_id |-> client_order_id,
     symbol |-> symbol, quantity |-> quantity, order_type |-> order_type,
     side |-> side, limit_price |-> limit_price, stop_price |-> stop_price,
     status |-> status, filled_quantity |-> filled_quantity,
     average_fill_price |-> average_fill_price]

\* AuditLogger.log_risk_check_failure: the RISK_CHECK_FAILED record.
LogRiskCheckFailure(request, reason) ==
    [event |-> "RISK_CHECK_FAILED", order_id |-> NoneStr,
     client_order_id |-> request.client_order_id, symbol |-> request.symbol,
     reason |-> reason]

\* AuditLogger.log_order_submitted: the ORDER_SUBMITTED record, which joins
\* the broker's id (from the Order) with the client's id (from the request).
LogOrderSubmitted(request, order) ==
    [event |-> "ORDER_SUBMITTED", order_id |-> order.order_id,
     client_order_id |-> request.client_order_id, symbol |-> request.symbol,
     reason |-> <<>>]

\* AuditLogger.log_order_cancelled: the ORDER_CANCELLED record.
LogOrderCancelled(order_id, reason) ==
    [event |-> "ORDER_CANCELLED", order_id |-> order_id,
     client_order_id |-> NoneStr, symbol |-> NoneStr, reason |-> reason]

\* The exception of a logging backend that fails (a raising handler filter,
\* an injected audit_logger that raises).
LoggingError == Raise("LoggingError", <<"audit sink failed">>, NoExc)

\* One audit-logger call: the record is emitted when the backend works and
\* the backend's exception leaves the call when it does not.
Emit(logOk, record) ==
    [records |-> IF logOk THEN <<record>> ELSE <<>>,
     exc |-> IF logOk THEN NoExc ELSE LoggingError]

----------------------------------------------------------------------------
(* Connection manager (execution/connection.py) *)

\* IBKRConnectionManager.is_connected
IsConnected == ib # 0 /\ sessions[ib] = "open"

\* IBKRConnectionManager.get_ib_client: the handle, or ConnectionError.
GetIbClient ==
    IF ib = 0 \/ ~IsConnected
    THEN [exc |-> Raise("ConnectionError", <<"Not connected to TWS">>, NoExc), handle |-> 0]
    ELSE [exc |-> NoExc, handle |-> ib]

\* The transport's own failure during connectAsync.
TransportError == Raise("TransportError", <<"connection refused">>, NoExc)

\* ConnectFailure without `from e` and with the cause suppressed.
ConnectFailureNoCause(e) ==
    Raise("ConnectionError", <<"Failed to connect to TWS at 127.0.0.1:7497: ">> \o e.msg, NoExc)

\* connect()'s except branch: raise ConnectionError(error_msg) from e
ConnectFailure(e) ==
    Raise("ConnectionError", <<"Failed to connect to TWS at 127.0.0.1:7497: ">> \o e.msg, e)

----------------------------------------------------------------------------
(* Broker-native orders and the executor's conversions (execution/executor.py) *)

\* The value ib_insync leaves in a price field of a native order that the
\* constructor was not given (UNSET_DOUBLE, the largest float).
UnsetDouble == 1000000

\* float(decimal): exact for the prices and quantities of the input domains.
Float(d) == d

\* str(orderId)
Str(n) == ToString(n)

\* MarketOrder / LimitOrder / StopOrder(action, totalQuantity, ...): the
\* native order before the broker numbers it.
NativeOrder(cls, action, totalQuantity, lmtPrice, auxPrice) ==
    [cls |-> cls, action |-> action, totalQuantity |-> totalQuantity,
     lmtPrice |-> lmtPrice, auxPrice |-> auxPrice, tif |-> "", account |-> "",
     orderId |-> 0]

NoNative == [cls |-> NoneStr]

ValueError(msg) == Raise("ValueError", msg, NoExc)

\* CreateByKind without its defensive checks: a missing price becomes 0.
CreateByKindDefaultPrice(request) ==
    LET price(p) == IF p = None THEN 0 ELSE Float(p) IN
    CASE request.order_type = "MARKET" ->
           [exc |-> NoExc,
            order |-> NativeOrder("MarketOrder", request.side, Float(request.quantity),
                                  UnsetDouble, UnsetDouble)]
      [] request.order_type = "LIMIT" ->
           [exc |-> NoExc,
            order |-> NativeOrder("LimitOrder", request.side, Float(request.quantity),
                                  price(request.limit_price), UnsetDouble)]
      [] request.order_type = "STOP" ->
           [exc |-> NoExc,
            order |-> NativeOrder("StopOrder", request.side, Float(request.quantity),
                                  UnsetDouble, price(request.stop_price))]
      [] OTHER ->
           [exc |-> NoExc,
            order |-> NativeOrder("LimitOrder", request.side, Float(request.quantity),
                                  price(request.limit_price), price(request.stop_price))]

\* _create_ib_order, the order-kind branch: the native order, or the
\* ValueError of a request whose required price is missing.
CreateByKind(request) ==
    CASE request.order_type = "MARKET" ->
           [exc |-> NoExc,
            order |-> NativeOrder("MarketOrder", request.side, Float(request.quantity),
                                  UnsetDouble, UnsetDouble)]
      [] request.order_type = "LIMIT" ->
           IF request.limit_price = None
           THEN [exc |-> ValueError(<<"Limit price required for LIMIT order">>),
                 order |-> NoNative]
           ELSE [exc |-> NoExc,
                 order |-> NativeOrder("LimitOrder", request.side, Float(request.quantity),
                                       Float(request.limit_price), UnsetDouble)]
      [] request.order_type = "STOP" ->
           IF request.stop_price = None
           THEN [exc |-> ValueError(<<"Stop price required for STOP order">>),
                 order |-> NoNative]
           ELSE [exc |-> NoExc,
                 order |-> NativeOrder("StopOrder", request.side, Float(request.quantity),
                                       UnsetDouble, Float(request.stop_price))]
      [] request.order_type = "STOP_LIMIT" ->
           IF request.stop_price = None \/ request.limit_price = None
           THEN [exc |-> ValueError(<<"Stop and limit prices required for STOP_LIMIT order">>),
                 order |-> NoNative]
           ELSE [exc |-> NoExc,
                 order |-> NativeOrder("LimitOrder", request.side, Float(request.quantity),
                                       Float(request.limit_price), Float(request.stop_price))]
      [] OTHER ->
           [exc |-> ValueError(<<"Unsupported order type: ", request.order_type>>),
            order |-> NoNative]

\* _create_ib_order: the kind branch, then time in force and account.
CreateIbOrder(request) ==
    LET r == CreateByKind(request) IN
    IF r.exc # NoExc THEN r
    ELSE [exc |-> NoExc,
          order |-> [r.order EXCEPT
                       !.tif = IF request.time_in_force \in {"DAY", "GTC", "IOC", "FOK"}
                               THEN request.time_in_force ELSE @,
                       !.account = IF request.account # NoneStr
                                   THEN request.account ELSE @]]

\* MapIbStatus with the "Inactive" entry missing from status_map.
MapIbStatusWithoutInactive(ib_status) ==
    CASE ib_status = "PendingSubmit" -> "PENDING"
      [] ib_status = "Submitted" -> "SUBMITTED"
      [] ib_status = "PreSubmitted" -> "SUBMITTED"
      [] ib_status = "PartiallyFilled" -> "PARTIALLY_FILLED"
      [] ib_status = "Filled" -> "FILLED"
      [] ib_status = "Cancelled" -> "CANCELLED"
      [] ib_status = "Rejected" -> "REJECTED"
      [] OTHER -> "PENDING"

\* _map_ib_status: status_map.get(ib_status, OrderStatus.PENDING)
MapIbStatus(ib_status) ==
    CASE ib_status = "PendingSubmit" -> "PENDING"
      [] ib_status = "Submitted" -> "SUBMITTED"
      [] ib_status = "PreSubmitted" -> "SUBMITTED"
      [] ib_status = "PartiallyFilled" -> "PARTIALLY_FILLED"
      [] ib_status = "Filled" -> "FILLED"
      [] ib_status = "Cancelled" -> "CANCELLED"
      [] ib_status = "Rejected" -> "REJECTED"
      [] ib_status = "Inactive" -> "REJECTED"
      [] OTHER -> "PENDING"

\* The avgFillPrice > 0 test of both conversions.
AverageFillPrice(trade) ==
    IF trade.avgFillPrice > 0 THEN trade.avgFillPrice ELSE None

\* ConvertToOrder without the filled_quantity argument: the dataclass's
\* default, Decimal("0"), stands in the snapshot.
ConvertToOrderDefaultFill(trade, request) ==
    Order(Str(trade.order.orderId), request.client_order_id, request.symbol,
          request.quantity, request.order_type, request.side,
          request.limit_price, request.stop_price,
          MapIbStatus(trade.status), 0, AverageFillPrice(trade))

\* _convert_to_order: the broker's id, status and fill, the request's fields.
ConvertToOrder(trade, request) ==
    Order(Str(trade.order.orderId), request.client_order_id, request.symbol,
          request.quantity, request.order_type, request.side,
          request.limit_price, request.stop_price,
          MapIbStatus(trade.status), trade.filled, AverageFillPrice(trade))

\* DetermineOrderType without the look at auxPrice: every LimitOrder is LIMIT.
DetermineOrderTypeIgnoresAux(ib_order) ==
    CASE ib_order.cls = "MarketOrder" -> "MARKET"
      [] ib_order.cls = "LimitOrder" -> "LIMIT"
      [] ib_order.cls = "StopOrder" -> "STOP"
      [] OTHER -> "MARKET"

\* _determine_order_type: the kind inferred from the native order's class.
DetermineOrderType(ib_order) ==
    CASE ib_order.cls = "MarketOrder" -> "MARKET"
      [] ib_order.cls = "LimitOrder" ->
           IF ib_order.auxPrice > 0 THEN "STOP_LIMIT" ELSE "LIMIT"
      [] ib_order.cls = "StopOrder" -> "STOP"
      [] OTHER -> "MARKET"

\* _convert_trade_to_order: an Order rebuilt from the native trade alone.
ConvertTradeToOrder(trade) ==
    Order(Str(trade.order.orderId), NoneStr, trade.symbol,
          trade.order.totalQuantity, DetermineOrderType(trade.order),
          IF trade.order.action = "BUY" THEN "BUY" ELSE "SELL",
          IF trade.order.lmtPrice > 0 THEN trade.order.lmtPrice ELSE None,
          IF trade.order.auxPrice > 0 THEN trade.order.auxPrice ELSE None,
          MapIbStatus(trade.status), trade.filled, AverageFillPrice(trade))

\* WrapRejected raising a bare OrderRejectedError: no `{e}`, no `from e`.
WrapRejectedNoCause(e) ==
    Raise("OrderRejectedError", <<"Order rejected by broker">>, NoExc)

\* submit_order's except clause:
\* raise OrderRejectedError(f"Order rejected by broker: {e}") from e
WrapRejected(e) ==
    Raise("OrderRejectedError", <<"Order rejected by broker: ">> \o e.msg, e)

\* submit_order's risk branch: the message of the rejection.
RiskMessage(request) == <<"Risk check rejected order for ", request.symbol>>

----------------------------------------------------------------------------
(* The broker session (ib_insync.IB), as far as the executor uses it *)

\* The broker's failure to take an order (bad symbol, margin, market closed).
BrokerError == Raise("BrokerError", <<"Invalid symbol">>, NoExc)

\* The exception of a risk-check callback that raises instead of answering.
CallbackError == Raise("CallbackError", <<"risk model unavailable">>, NoExc)

\* Statuses after which an order is no longer open at the broker.
DoneStates == {"Filled", "Cancelled", "ApiCancelled"}

\* ib.placeOrder(contract, ib_order): the broker numbers the order and tracks
\* the trade, not yet acknowledged.
NewTrade(symbol, ib_order, orderId) ==
    [symbol |-> symbol, order |-> [ib_order EXCEPT !.orderId = orderId],
     status |-> "PendingSubmit", filled |-> 0, avgFillPrice |-> 0]

\* ib.openTrades()
OpenTrades == SelectSeq(trades, LAMBDA t : t.status \notin DoneStates)

\* Index of the first trade whose str(orderId) equals order_id, 0 if none:
\* the `for trade in ib.trades()` search of cancel and status query.
FindTrade(order_id) ==
    IF \E i \in 1..Len(trades) : Str(trades[i].order.orderId) = order_id
    THEN CHOOSE i \in 1..Len(trades) :
           /\ Str(trades[i].order.orderId) = order_id
           /\ \A j \in 1..(i - 1) : Str(trades[j].order.orderId) # order_id
    ELSE 0

NotFound(order_id) == ValueError(<<"Order ", order_id, " not found">>)

----------------------------------------------------------------------------
(* Calls in progress *)

\* Order ids callers pass to cancel_order and get_order_status: the id of the
\* first order the broker takes, and one it never hands out.
OrderIdArgs == {"1", "999"}

\* trade.orderStatus as a call read it: nothing read yet.
NoReport == [status |-> "none", filled |-> 0]

\* trade.orderStatus.status and .filled of a tracked trade.
Report(trade) == [status |-> trade.status, filled |-> trade.filled]

Pending == [kind |-> "pending", exc |-> NoExc, order |-> NoOrder, list |-> <<>>]

\* `return order` / `return orders` / `return None`
Returned(order, list) == [kind |-> "return", exc |-> NoExc, order |-> order, list |-> list]

\* an exception leaves the operation
Raised(e) == [kind |-> "raise", exc |-> e, order |-> NoOrder, list |-> <<>>]

\* A caller between operations.  Besides the operation's own locals (op,
\* request, order_id, pc, pend: the IB object connect() awaits, placed: the
\* trade placeOrder returned) a call keeps a record of what it did:
\*   nRisk .. nCancel  how often it invoked the risk callback, ensure_connected,
\*                     connect, get_ib_client, ib.placeOrder and ib.cancelOrder
\*   logged            the audit records it emitted
\*   logFailed         an audit-logger call of it raised
\*   riskResult        what the risk callback did
\*   ensureFailed      its ensure_connected() raised
\*   dropped           get_ib_client() found the session disconnected
\*   caught, caughtIn  the exception submit_order's try block caught and the
\*                     step that raised it
\*   retry             the caller's previous call was a connect() that raised
\*                     (kept by the calls made on the manager directly)
\*   attempt, backoff  connect_with_retry's locals
\*   sleeps            the durations connect_with_retry slept, in order
\*   prev              the operation of the caller's previous call on the manager
\*   nClose            how often it closed a session (ib.disconnect())
\*   trace             the calls it made on its collaborators, in order
\*   found             the index of the trade its search of ib.trades() matched
\*   seen              the broker's report of the trade it converted or
\*                     cancelled, as it was then
IdleCall ==
    [op |-> "none", pc |-> "idle", request |-> NoRequest, order_id |-> NoneStr,
     pend |-> 0, placed |-> 0, out |-> Pending, caught |-> NoExc,
     caughtIn |-> "none", riskResult |-> "none", logFailed |-> FALSE,
     ensureFailed |-> FALSE, dropped |-> FALSE,
     nRisk |-> 0, nEnsure |-> 0, nConnect |-> 0, nGetClient |-> 0,
     nPlace |-> 0, nCancel |-> 0, logged |-> <<>>,
     trace |-> <<>>, found |-> 0, seen |-> NoReport, retry |-> FALSE,
     prev |-> "none", nClose |-> 0,
     attempt |-> 0, backoff |-> 0, sleeps |-> <<>>]

\* The operation op starts, with its arguments.
StartCall(op, request, order_id) ==
    [IdleCall EXCEPT !.op = op, !.request = request, !.order_id = order_id,
                     !.pc = "ensure"]

\* The call finishes with outcome o.
Finish(c, o) == [c EXCEPT !.pc = "done", !.out = o]

\* IBKRConnectionManager(...)'s defaults: max_reconnect_attempts=5,
\* reconnect_backoff_seconds=5.
DefaultSettings == [max_reconnect_attempts |-> 5, reconnect_backoff_seconds |-> 5]

CanStart(c) == call[c].pc \in {"idle", "done"} /\ started < MaxCalls

Init ==
    /\ ib = 0
    /\ connected = FALSE
    /\ sessions = <<>>
    /\ trades = <<>>
    /\ audit = <<>>
    /\ riskConfigured \in BOOLEAN
    /\ settings = DefaultSettings
    /\ call = [c \in OneCaller |-> IdleCall]
    /\ started = 0

----------------------------------------------------------------------------
(* submit_order *)

\* RiskGate with the `raise RiskCheckError` forgotten: a rejection is logged
\* and the submission goes on.
RiskGateContinues(c, request, configured, result, logOk) ==
    IF ~configured
    THEN [call |-> [c EXCEPT !.pc = "ensure"], records |-> <<>>]
    ELSE LET c1 == [c EXCEPT !.nRisk = @ + 1, !.riskResult = result,
                             !.trace = Append(@, "risk_check")] IN
         CASE result = "raise" ->
                [call |-> Finish(c1, Raised(CallbackError)), records |-> <<>>]
           [] result = "false" ->
                LET log == Emit(logOk, LogRiskCheckFailure(request, RiskMessage(request))) IN
                [call |-> [c1 EXCEPT !.logged = @ \o log.records, !.pc = "ensure",
                                     !.trace = Append(@, "log_risk_check_failure")],
                 records |-> log.records]
           [] OTHER ->
                [call |-> [c1 EXCEPT !.pc = "ensure"], records |-> <<>>]

\* submit_order up to `await ensure_connected()`: the risk gate.  result is
\* what the callback does ("true", "false" or "raise"), logOk whether the
\* audit backend works.  Gives the call after the step and the records logged.
RiskGate(c, request, configured, result, logOk) ==
    IF ~configured
    THEN [call |-> [c EXCEPT !.pc = "ensure"], records |-> <<>>]
    ELSE LET c1 == [c EXCEPT !.nRisk = @ + 1, !.riskResult = result,
                             !.trace = Append(@, "risk_check")] IN
         CASE result = "raise" ->
                [call |-> Finish(c1, Raised(CallbackError)), records |-> <<>>]
           [] result = "false" ->
                LET error_msg == RiskMessage(request)
                    log == Emit(logOk, LogRiskCheckFailure(request, error_msg))
                    c2 == [c1 EXCEPT !.logged = @ \o log.records,
                                     !.logFailed = ~logOk,
                                     !.trace = Append(@, "log_risk_check_failure")]
                IN  IF log.exc # NoExc
                    THEN [call |-> Finish(c2, Raised(log.exc)), records |-> log.records]
                    ELSE [call |-> Finish(c2, Raised(Raise("RiskCheckError", error_msg, NoExc))),
                          records |-> log.records]
           [] OTHER ->
                [call |-> [c1 EXCEPT !.pc = "ensure"], records |-> <<>>]

\* A caller builds a request and calls submit_order(request).
SubmitOrder(c, request) ==
    /\ CanStart(c)
    /\ \E result \in {"true", "false", "raise"}, logOk \in BOOLEAN :
         LET fresh == StartCall("submit_order", request, NoneStr)
             r == RiskGate(fresh, request, riskConfigured, result, logOk)
         IN  /\ call' = [call EXCEPT ![c] = r.call]
             /\ audit' = audit \o r.records
    /\ started' = started + 1
    /\ UNCHANGED <<ib, connected, sessions, trades, riskConfigured, settings>>

\* The except clause of submit_order's try block: step raised e inside it.
Rejected(c, e, step) ==
    Finish([c EXCEPT !.caught = e, !.caughtIn = step], Raised(WrapRejected(e)))

\* _place_order_with_ib up to `await ib.sleepAsync(0.5)`, inside submit_order's
\* try block.  client is get_ib_client()'s result, placeOk whether the broker
\* takes the order, orderId the id it would give.  Gives the call after the
\* step and the trades the broker starts to track.
PlaceStep(c, client, placeOk, orderId) ==
    LET c1 == [c EXCEPT !.nGetClient = @ + 1, !.dropped = (client.exc # NoExc),
                        !.trace = Append(@, "get_ib_client")]
        native == CreateIbOrder(c.request)
    IN  IF client.exc # NoExc
        THEN [call |-> Rejected(c1, client.exc, "handle"), placed |-> <<>>]
        ELSE IF native.exc # NoExc
        THEN [call |-> Rejected(c1, native.exc, "build"), placed |-> <<>>]
        ELSE LET c2 == [c1 EXCEPT !.nPlace = @ + 1,
                                  !.trace = Append(@, "placeOrder")] IN
             IF ~placeOk
             THEN [call |-> Rejected(c2, BrokerError, "place"), placed |-> <<>>]
             ELSE [call |-> [c2 EXCEPT !.pc = "grace", !.placed = orderId],
                   placed |-> <<NewTrade(c.request.symbol, native.order, orderId)>>]

\* submit_order after ensure_connected returned: get the handle, build the
\* native order, place it, then wait out the grace period.
PlaceOrder(c) ==
    /\ call[c].op = "submit_order" /\ call[c].pc = "body"
    /\ \E placeOk \in BOOLEAN :
         LET r == PlaceStep(call[c], GetIbClient, placeOk, Len(trades) + 1) IN
         /\ call' = [call EXCEPT ![c] = r.call]
         /\ trades' = trades \o r.placed
    /\ UNCHANGED <<ib, connected, sessions, audit, riskConfigured, settings, started>>

\* submit_order after the grace period: _convert_to_order on the trade as
\* the broker reports it now, log_order_submitted, return; still inside the
\* try block, so a failing audit backend is caught like a broker failure.
AfterGraceStep(c, trade, logOk) ==
    LET order == ConvertToOrder(trade, c.request)
        log == Emit(logOk, LogOrderSubmitted(c.request, order))
        c1 == [c EXCEPT !.logged = @ \o log.records, !.logFailed = ~logOk,
                        !.seen = Report(trade),
                        !.trace = Append(@, "log_order_submitted")]
    IN  IF log.exc # NoExc
        THEN [call |-> Rejected(c1, log.exc, "log"), records |-> log.records]
        ELSE [call |-> Finish(c1, Returned(order, <<>>)), records |-> log.records]

\* AfterGrace converting the session's most recent trade, ib.trades()[-1],
\* instead of the trade its own placeOrder returned.
AfterGraceLatestTrade(c) ==
    /\ call[c].op = "submit_order" /\ call[c].pc = "grace"
    /\ \E logOk \in BOOLEAN :
         LET r == AfterGraceStep(call[c], trades[Len(trades)], logOk) IN
         /\ call' = [call EXCEPT ![c] = r.call]
         /\ audit' = audit \o r.records
    /\ UNCHANGED <<ib, connected, sessions, trades, riskConfigured, settings, started>>

AfterGrace(c) ==
    /\ call[c].op = "submit_order" /\ call[c].pc = "grace"
    /\ \E logOk \in BOOLEAN :
         LET r == AfterGraceStep(call[c], trades[call[c].placed], logOk) IN
         /\ call' = [call EXCEPT ![c] = r.call]
         /\ audit' = audit \o r.records
    /\ UNCHANGED <<ib, connected, sessions, trades, riskConfigured, settings, started>>

----------------------------------------------------------------------------
(* ensure_connected and connect, as every executor operation awaits them *)

\* EnsureStep without the is_connected() test: connect() is always awaited.
EnsureStepAlwaysConnects(c, isConn, ibNew) ==
    [c EXCEPT !.nEnsure = @ + 1, !.nConnect = @ + 1, !.pend = ibNew,
              !.pc = "connecting",
              !.trace = @ \o <<"ensure_connected", "connect">>]

\* ensure_connected: `if not self.is_connected(): await self.connect()`.
\* isConn is is_connected()'s answer, ibNew the IB() object connect() would
\* create.  The call then awaits connectAsync on that object or goes on.
EnsureStep(c, isConn, ibNew) ==
    LET c1 == [c EXCEPT !.nEnsure = @ + 1,
                        !.trace = Append(@, "ensure_connected")] IN
    IF isConn
    THEN [c1 EXCEPT !.pc = "body"]
    ELSE [c1 EXCEPT !.nConnect = @ + 1, !.pend = ibNew, !.pc = "connecting",
                    !.trace = Append(@, "connect")]

\* An IB object nothing refers to any more once connect() rebinds self._ib:
\* it is not open (an open one keeps its socket) and no connect() awaits it.
Garbage(i) ==
    /\ sessions[i] # "open"
    /\ \A c \in Callers : ~(call[c].pc = "connecting" /\ call[c].pend = i)

\* The index of the object `IB()` creates: a reclaimed one if there is any.
FreshIB ==
    IF \E i \in 1..Len(sessions) : Garbage(i)
    THEN CHOOSE i \in 1..Len(sessions) :
           Garbage(i) /\ \A j \in 1..(i - 1) : ~Garbage(j)
    ELSE Len(sessions) + 1

\* An operation, or a caller of the manager, awaits ensure_connected().
\* Called on the manager directly it returns to the caller at once when the
\* manager is connected.
EnsureConnected(c) ==
    /\ call[c].pc = "ensure"
    /\ LET c1 == EnsureStep(call[c], IsConnected, FreshIB) IN
       /\ call' = [call EXCEPT ![c] =
                     IF c1.op = "ensure_connected" /\ c1.pc = "body"
                     THEN Finish(c1, Returned(NoOrder, <<>>))
                     ELSE c1]
       /\ IF c1.pc = "connecting"
          THEN /\ sessions' = IF c1.pend <= Len(sessions)      \* self._ib = IB()
                              THEN [sessions EXCEPT ![c1.pend] = "new"]
                              ELSE Append(sessions, "new")
               /\ ib' = c1.pend
          ELSE UNCHANGED <<sessions, ib>>
    /\ UNCHANGED <<connected, trades, audit, riskConfigured, settings, started>>

CanStartManagerCall(c) == call[c].pc \in {"idle", "done"} /\ started < MaxManagerCalls

\* The call a caller makes on the manager directly, as it starts: it
\* remembers whether the caller's last call was a connect() that raised.
StartManagerCall(c, op) ==
    [StartCall(op, NoRequest, NoneStr) EXCEPT
        !.retry = (call[c].op = "connect" /\ call[c].out.kind = "raise"),
        !.prev = call[c].op]

\* A caller calls connect() on the manager: `self._ib = IB()`, whatever
\* self._ib was, then `await self._ib.connectAsync(...)`.
Connect(c) ==
    /\ CanStartManagerCall(c)
    /\ LET fresh == [StartManagerCall(c, "connect") EXCEPT
                       !.nConnect = 1, !.pend = FreshIB, !.pc = "connecting",
                       !.trace = <<"connect">>]
       IN  /\ call' = [call EXCEPT ![c] = fresh]
           /\ sessions' = IF fresh.pend <= Len(sessions)
                           THEN [sessions EXCEPT ![fresh.pend] = "new"]
                           ELSE Append(sessions, "new")
           /\ ib' = fresh.pend
    /\ started' = started + 1
    /\ UNCHANGED <<connected, trades, audit, riskConfigured, settings>>

\* connect_with_retry's `while attempt < self.max_reconnect_attempts:` test
\* and what follows it: `await self.connect()` on a new IB object (ibNew), or
\* the end of the function when the loop is not entered.
RetryLoop(c, max, ibNew) ==
    IF c.attempt < max
    THEN [c EXCEPT !.nConnect = @ + 1, !.pend = ibNew, !.pc = "connecting",
                   !.trace = Append(@, "connect")]
    ELSE Finish(c, Returned(NoOrder, <<>>))

\* raise ConnectionError(f"Failed to connect after {max} attempts") from e
RetriesExhausted(max, e) ==
    Raise("ConnectionError", <<"Failed to connect after ", Str(max), " attempts">>, e)

\* backoff *= 2 with the doubling left out.
NextBackoffConstant(backoff) == backoff

\* backoff *= 2
NextBackoff(backoff) == backoff * 2

\* RetryStep with `attempt > max` for `attempt >= max`.
RetryStepOffByOne(c, max, e) ==
    LET c1 == [c EXCEPT !.attempt = @ + 1, !.pend = 0] IN
    IF c1.attempt > max
    THEN Finish(c1, Raised(RetriesExhausted(max, e)))
    ELSE [c1 EXCEPT !.pc = "sleeping", !.sleeps = Append(@, c.backoff),
                    !.trace = Append(@, "sleep")]

\* connect_with_retry's except clause: connect() raised the ConnectionError
\* e.  Count the attempt; give up after the last one, otherwise
\* `await asyncio.sleep(backoff)`.
RetryStep(c, max, e) ==
    LET c1 == [c EXCEPT !.attempt = @ + 1, !.pend = 0] IN
    IF c1.attempt >= max
    THEN Finish(c1, Raised(RetriesExhausted(max, e)))
    ELSE [c1 EXCEPT !.pc = "sleeping", !.sleeps = Append(@, c.backoff),
                    !.trace = Append(@, "sleep")]

\* connectAsync returns: connect() sets _connected and returns, to its
\* caller or to the ensure_connected() of an operation.
ConnectOk(c) ==
    /\ call[c].pc = "connecting"
    /\ sessions' = [sessions EXCEPT ![call[c].pend] = "open"]
    /\ connected' = TRUE
    /\ call' = [call EXCEPT ![c] =
                  IF call[c].op \in {"connect", "ensure_connected", "connect_with_retry"}
                  THEN Finish([call[c] EXCEPT !.pend = 0], Returned(NoOrder, <<>>))
                  ELSE [call[c] EXCEPT !.pc = "body", !.pend = 0]]
    /\ UNCHANGED <<ib, trades, audit, riskConfigured, settings, started>>

\* EnsureFailed with one more try: after a failed connect the operation awaits
\* ensure_connected() a second time before it gives up.
EnsureFailedTriesAgain(c, e) ==
    IF c.nConnect < 2
    THEN [c EXCEPT !.pend = 0, !.pc = "ensure"]
    ELSE Finish([c EXCEPT !.ensureFailed = TRUE, !.pend = 0], Raised(e))

\* EnsureFailed with submit_order's ensure_connected moved into its try block.
EnsureFailedInsideTry(c, e) ==
    LET c1 == [c EXCEPT !.ensureFailed = TRUE, !.pend = 0] IN
    IF c.op = "submit_order" THEN Rejected(c1, e, "ensure") ELSE Finish(c1, Raised(e))

\* `await self.connection_manager.ensure_connected()` raises e: no operation
\* awaits it inside a try block, so e leaves the operation as it is.
EnsureFailed(c, e) == Finish([c EXCEPT !.ensureFailed = TRUE, !.pend = 0], Raised(e))

\* connectAsync raises: connect() clears _connected and raises
\* ConnectionError from the cause, to its caller or through the
\* ensure_connected() of an operation.
ConnectFail(c) ==
    /\ call[c].pc = "connecting"
    /\ sessions' = [sessions EXCEPT ![call[c].pend] = "closed"]
    /\ connected' = FALSE
    /\ call' = [call EXCEPT ![c] =
                  CASE call[c].op = "connect" ->
                         Finish([call[c] EXCEPT !.pend = 0],
                                Raised(ConnectFailure(TransportError)))
                    [] call[c].op = "connect_with_retry" ->
                         RetryStep(call[c], settings.max_reconnect_attempts,
                                   ConnectFailure(TransportError))
                    [] OTHER -> EnsureFailed(call[c], ConnectFailure(TransportError))]
    /\ UNCHANGED <<ib, trades, audit, riskConfigured, settings, started>>

\* self._ib = IB() of the connect() a call has just started, if it has.
Rebind(c1) ==
    /\ sessions' = IF c1.pend <= Len(sessions)
                    THEN [sessions EXCEPT ![c1.pend] = "new"]
                    ELSE Append(sessions, "new")
    /\ ib' = c1.pend

\* A caller calls connect_with_retry(): the locals are set and the loop is
\* tested for the first time.
ConnectWithRetry(c) ==
    /\ CanStartManagerCall(c)
    /\ LET fresh == [StartManagerCall(c, "connect_with_retry") EXCEPT
                       !.backoff = settings.reconnect_backoff_seconds]
           c1 == RetryLoop(fresh, settings.max_reconnect_attempts, FreshIB)
       IN  /\ call' = [call EXCEPT ![c] = c1]
           /\ IF c1.pc = "connecting" THEN Rebind(c1) ELSE UNCHANGED <<sessions, ib>>
    /\ started' = started + 1
    /\ UNCHANGED <<connected, trades, audit, riskConfigured, settings>>

\* asyncio.sleep(backoff) returns: the backoff doubles and the loop is
\* tested again.
RetryWake(c) ==
    /\ call[c].pc = "sleeping"
    /\ LET c1 == RetryLoop([call[c] EXCEPT !.backoff = NextBackoff(@)],
                           settings.max_reconnect_attempts, FreshIB)
       IN  /\ call' = [call EXCEPT ![c] = c1]
           /\ IF c1.pc = "connecting" THEN Rebind(c1) ELSE UNCHANGED <<sessions, ib>>
    /\ UNCHANGED <<connected, trades, audit, riskConfigured, settings, started>>

\* A caller calls ensure_connected() on the manager.
Ensure(c) ==
    /\ CanStartManagerCall(c)
    /\ call' = [call EXCEPT ![c] = StartManagerCall(c, "ensure_connected")]
    /\ started' = started + 1
    /\ UNCHANGED <<ib, connected, sessions, trades, audit, riskConfigured, settings>>

\* Disconnect clearing the _connected flag only: ib.disconnect() is not called.
DisconnectFlagOnly(c) ==
    /\ CanStartManagerCall(c)
    /\ call' = [call EXCEPT ![c] =
                  Finish(StartManagerCall(c, "disconnect"), Returned(NoOrder, <<>>))]
    /\ connected' = FALSE
    /\ started' = started + 1
    /\ UNCHANGED <<ib, sessions, trades, audit, riskConfigured, settings>>

\* A caller calls disconnect(): the session is closed if there is an open
\* one, and nothing happens otherwise.
Disconnect(c) ==
    /\ CanStartManagerCall(c)
    /\ call' = [call EXCEPT ![c] =
                  Finish(IF ib # 0 /\ sessions[ib] = "open"
                         THEN [StartManagerCall(c, "disconnect") EXCEPT
                                  !.nClose = 1, !.trace = <<"ib.disconnect">>]
                         ELSE StartManagerCall(c, "disconnect"),
                         Returned(NoOrder, <<>>))]
    /\ IF ib # 0 /\ sessions[ib] = "open"
       THEN /\ sessions' = [sessions EXCEPT ![ib] = "closed"]
            /\ connected' = FALSE
       ELSE UNCHANGED <<sessions, connected>>
    /\ started' = started + 1
    /\ UNCHANGED <<ib, trades, audit, riskConfigured, settings>>

\* A caller calls is_connected(): the answer is what it returns.
AskIsConnected(c) ==
    /\ CanStartManagerCall(c)
    /\ call' = [call EXCEPT ![c] =
                  Finish(StartManagerCall(c, "is_connected"),
                         Returned(NoOrder, <<IsConnected>>))]
    /\ started' = started + 1
    /\ UNCHANGED <<ib, connected, sessions, trades, audit, riskConfigured, settings>>

\* A caller calls get_ib_client(): it returns the handle or raises.
AskIbClient(c) ==
    /\ CanStartManagerCall(c)
    /\ call' = [call EXCEPT ![c] =
                  Finish([StartManagerCall(c, "get_ib_client") EXCEPT
                             !.nGetClient = 1, !.dropped = (GetIbClient.exc # NoExc)],
                         IF GetIbClient.exc # NoExc
                         THEN Raised(GetIbClient.exc)
                         ELSE Returned(NoOrder, <<GetIbClient.handle>>))]
    /\ started' = started + 1
    /\ UNCHANGED <<ib, connected, sessions, trades, audit, riskConfigured, settings>>

----------------------------------------------------------------------------
(* cancel_order *)

\* ib.cancelOrder(order): the request goes to the broker; a trade that is
\* not done yet is marked PendingCancel.
CancelAtBroker(trade) ==
    IF trade.status \in DoneStates THEN trade ELSE [trade EXCEPT !.status = "PendingCancel"]

\* A caller calls cancel_order(order_id).
CancelOrder(c, order_id) ==
    /\ CanStart(c)
    /\ call' = [call EXCEPT ![c] = StartCall("cancel_order", NoRequest, order_id)]
    /\ started' = started + 1
    /\ UNCHANGED <<ib, connected, sessions, trades, audit, riskConfigured, settings>>

\* CancelStep without the `raise ValueError` after the loop: an id that
\* matches no trade is reported cancelled.
CancelStepIgnoresUnknown(c, client, idx, logOk) ==
    LET c1 == [c EXCEPT !.nGetClient = @ + 1, !.dropped = (client.exc # NoExc),
                        !.trace = Append(@, "get_ib_client")] IN
    IF client.exc # NoExc
    THEN [call |-> Finish(c1, Raised(client.exc)), cancels |-> {}, records |-> <<>>]
    ELSE LET log == Emit(logOk, LogOrderCancelled(c.order_id, <<"User requested cancellation">>))
             c2 == [c1 EXCEPT !.nCancel = IF idx = 0 THEN @ ELSE @ + 1,
                              !.logged = @ \o log.records, !.logFailed = ~logOk,
                              !.found = idx,
                              !.seen = IF idx = 0 THEN @ ELSE Report(trades[idx]),
                              !.trace = @ \o (IF idx = 0 THEN <<>> ELSE <<"cancelOrder">>)
                                          \o <<"log_order_cancelled">>]
         IN  [call |-> IF log.exc # NoExc
                       THEN Finish(c2, Raised(log.exc))
                       ELSE Finish(c2, Returned(NoOrder, <<>>)),
              cancels |-> IF idx = 0 THEN {} ELSE {idx}, records |-> log.records]

\* CancelStep with the two statements of cancel_order swapped:
\* log_order_cancelled first, _cancel_order_with_ib after it.
CancelStepLogsFirst(c, client, idx, logOk) ==
    LET log == Emit(logOk, LogOrderCancelled(c.order_id, <<"User requested cancellation">>))
        c1 == [c EXCEPT !.logged = @ \o log.records, !.logFailed = ~logOk,
                        !.trace = Append(@, "log_order_cancelled")]
        c2 == [c1 EXCEPT !.nGetClient = @ + 1, !.dropped = (client.exc # NoExc),
                         !.trace = Append(@, "get_ib_client")]
    IN  IF log.exc # NoExc
        THEN [call |-> Finish(c1, Raised(log.exc)), cancels |-> {}, records |-> <<>>]
        ELSE IF client.exc # NoExc
        THEN [call |-> Finish(c2, Raised(client.exc)), cancels |-> {}, records |-> log.records]
        ELSE IF idx = 0
        THEN [call |-> Finish(c2, Raised(NotFound(c.order_id))), cancels |-> {},
              records |-> log.records]
        ELSE [call |-> Finish([c2 EXCEPT !.nCancel = @ + 1, !.found = idx,
                                         !.seen = Report(trades[idx]),
                                         !.trace = Append(@, "cancelOrder")],
                              Returned(NoOrder, <<>>)),
              cancels |-> {idx}, records |-> log.records]

\* cancel_order after ensure_connected returned: _cancel_order_with_ib, then
\* log_order_cancelled; no try block, so every exception leaves as it is.
\* idx is the index of the matching trade (0: none).
CancelStep(c, client, idx, logOk) ==
    LET c1 == [c EXCEPT !.nGetClient = @ + 1, !.dropped = (client.exc # NoExc),
                        !.trace = Append(@, "get_ib_client")] IN
    IF client.exc # NoExc
    THEN [call |-> Finish(c1, Raised(client.exc)), cancels |-> {}, records |-> <<>>]
    ELSE IF idx = 0
    THEN [call |-> Finish(c1, Raised(NotFound(c.order_id))), cancels |-> {}, records |-> <<>>]
    ELSE LET log == Emit(logOk, LogOrderCancelled(c.order_id, <<"User requested cancellation">>))
             c2 == [c1 EXCEPT !.nCancel = @ + 1, !.logged = @ \o log.records,
                              !.logFailed = ~logOk,
                              !.found = idx, !.seen = Report(trades[idx]),
                              !.trace = @ \o <<"cancelOrder", "log_order_cancelled">>]
         IN  [call |-> IF log.exc # NoExc
                       THEN Finish(c2, Raised(log.exc))
                       ELSE Finish(c2, Returned(NoOrder, <<>>)),
              cancels |-> {idx}, records |-> log.records]

CancelBody(c) ==
    /\ call[c].op = "cancel_order" /\ call[c].pc = "body"
    /\ \E logOk \in BOOLEAN :
         LET r == CancelStep(call[c], GetIbClient, FindTrade(call[c].order_id), logOk) IN
         /\ call' = [call EXCEPT ![c] = r.call]
         /\ trades' = [i \in 1..Len(trades) |->
                         IF i \in r.cancels THEN CancelAtBroker(trades[i]) ELSE trades[i]]
         /\ audit' = audit \o r.records
    /\ UNCHANGED <<ib, connected, sessions, riskConfigured, settings, started>>

----------------------------------------------------------------------------
(* get_order_status, get_open_orders, get_positions *)

\* ib.positions(): what the account holds.
BrokerPositions == <<[symbol |-> "AAPL", position |-> 100, avgCost |-> 150]>>

\* The Position snapshot _get_positions_from_ib builds from a native position.
Position(p) ==
    [symbol |-> p.symbol, quantity |-> p.position, average_cost |-> p.avgCost,
     market_value |-> p.position * p.avgCost, unrealized_pnl |-> 0]

\* A caller calls one of the query operations.
Query(c, op, order_id) ==
    /\ CanStart(c)
    /\ op \in {"get_order_status", "get_open_orders", "get_positions"}
    /\ (op # "get_order_status" => order_id = NoneStr)
    /\ (op = "get_order_status" => order_id # NoneStr)
    /\ call' = [call EXCEPT ![c] = StartCall(op, NoRequest, order_id)]
    /\ started' = started + 1
    /\ UNCHANGED <<ib, connected, sessions, trades, audit, riskConfigured, settings>>

\* QueryStep of a query that reports what it read to the audit trail.
QueryStepAudited(c, client, idx) ==
    LET c1 == [c EXCEPT !.nGetClient = @ + 1, !.dropped = (client.exc # NoExc),
                        !.trace = Append(@, "get_ib_client")] IN
    IF client.exc # NoExc
    THEN Finish(c1, Raised(client.exc))
    ELSE Finish([c1 EXCEPT !.logged = Append(@, LogOrderCancelled(c.order_id, <<"status read">>)),
                           !.trace = Append(@, "log_order_status_change")],
                Returned(NoOrder, <<>>))

\* The query after ensure_connected returned: _get_order_from_ib,
\* _get_open_orders_from_ib or _get_positions_from_ib.
QueryStep(c, client, idx) ==
    LET c1 == [c EXCEPT !.nGetClient = @ + 1, !.dropped = (client.exc # NoExc),
                        !.trace = Append(@, "get_ib_client")] IN
    IF client.exc # NoExc
    THEN Finish(c1, Raised(client.exc))
    ELSE CASE c.op = "get_order_status" ->
                IF idx = 0
                THEN Finish(c1, Raised(NotFound(c.order_id)))
                ELSE Finish([c1 EXCEPT !.found = idx, !.seen = Report(trades[idx])],
                            Returned(ConvertTradeToOrder(trades[idx]), <<>>))
           [] c.op = "get_open_orders" ->
                Finish(c1, Returned(NoOrder,
                    [i \in 1..Len(OpenTrades) |-> ConvertTradeToOrder(OpenTrades[i])]))
           [] OTHER ->
                Finish(c1, Returned(NoOrder,
                    [i \in 1..Len(BrokerPositions) |-> Position(BrokerPositions[i])]))

QueryBody(c) ==
    /\ call[c].op \in {"get_order_status", "get_open_orders", "get_positions"}
    /\ call[c].pc = "body"
    /\ call' = [call EXCEPT ![c] = QueryStep(call[c], GetIbClient, FindTrade(call[c].order_id))]
    /\ UNCHANGED <<ib, connected, sessions, trades, audit, riskConfigured, settings, started>>

----------------------------------------------------------------------------
(* Environment *)

\* The transport of an open session closes (gateway restart, network loss):
\* isConnected() of that IB object is false from now on.  The manager learns
\* of it only by asking, so this can happen between any two steps of an
\* operation, also between ensure_connected() and get_ib_client().
TransportDrop ==
    /\ \E s \in 1..Len(sessions) :
         /\ sessions[s] = "open"
         /\ sessions' = [sessions EXCEPT ![s] = "closed"]
    /\ UNCHANGED <<ib, connected, trades, audit, riskConfigured, settings, call, started>>

\* The statuses the broker can report next for a trade.
NextStatuses(status) ==
    CASE status = "PendingSubmit" -> {"Submitted"}
      [] status = "Submitted" -> {"PartiallyFilled", "Filled"}
      [] status = "PartiallyFilled" -> {"Filled"}
      [] status = "PendingCancel" -> {"Cancelled"}
      [] OTHER -> {}

\* The broker reports a new status for a trade, with the fill that goes
\* with it (half the order when partially filled).
BrokerUpdate ==
    /\ \E i \in 1..Len(trades) : \E st \in NextStatuses(trades[i].status) :
         trades' = [trades EXCEPT
                      ![i].status = st,
                      ![i].filled = CASE st = "Filled" -> trades[i].order.totalQuantity
                                      [] st = "PartiallyFilled" -> trades[i].order.totalQuantity \div 2
                                      [] OTHER -> @,
                      ![i].avgFillPrice = IF st \in {"Filled", "PartiallyFilled"} THEN 150 ELSE @]
    /\ UNCHANGED <<ib, connected, sessions, audit, riskConfigured, settings, call, started>>

----------------------------------------------------------------------------

Next ==
    \/ \E c \in OneCaller, request \in SubmittedRequests : SubmitOrder(c, request)
    \/ \E c \in OneCaller, order_id \in OrderIdArgs : CancelOrder(c, order_id)
    \/ \E c \in OneCaller, op \in {"get_order_status", "get_open_orders", "get_positions"},
          order_id \in OrderIdArgs \cup {NoneStr} : Query(c, op, order_id)
    \/ \E c \in OneCaller : EnsureConnected(c)
    \/ \E c \in OneCaller : ConnectOk(c)
    \/ \E c \in OneCaller : ConnectFail(c)
    \/ \E c \in OneCaller : PlaceOrder(c)
    \/ \E c \in OneCaller : AfterGrace(c)
    \/ \E c \in OneCaller : CancelBody(c)
    \/ \E c \in OneCaller : QueryBody(c)
    \/ TransportDrop
    \/ BrokerUpdate

Spec == Init /\ [][Next]_vars

----------------------------------------------------------------------------
(* The queries over a session that tracks an order in any broker status *)

\* The status strings a trade can carry: the fourteen of ib_insync's
\* OrderStatus, the empty string of a trade without a report yet, and one
\* the broker API does not define.
StatusInputs ==
    {"PendingSubmit", "PendingCancel", "PreSubmitted", "Submitted",
     "ApiPending", "ApiCancelled", "Cancelled", "Filled", "Inactive",
     "PartiallyFilled", "Rejected", "ValidationError", "", "Unknown"}

\* Limit orders placed on the session through the handle get_ib_client()
\* hands out, with the auxiliary price explicitly cleared:
\* LimitOrder(action, 100, 250.0, auxPrice=0.0).
HandleOrders ==
    { NativeOrder("LimitOrder", action, 100, 250, 0) : action \in {"BUY", "SELL"} }

\* The native orders _create_ib_order builds from the well-formed requests,
\* and those placed through the handle.
NativeOrders ==
    { CreateIbOrder(r).order : r \in {q \in SubmittedRequests : PriceInvariant(q)} }
        \cup HandleOrders

\* The manager is connected and the session tracks one order, synchronised
\* from the broker on connect, in any status and of any kind.
InitTracked ==
    /\ ib = 1
    /\ connected = TRUE
    /\ sessions = <<"open">>
    /\ \E st \in StatusInputs, native \in NativeOrders :
         trades = <<[NewTrade("AAPL", native, 1) EXCEPT !.status = st]>>
    /\ audit = <<>>
    /\ riskConfigured = FALSE
    /\ settings = DefaultSettings
    /\ call = [c \in OneCaller |-> IdleCall]
    /\ started = 0

NextQueries ==
    \/ \E c \in OneCaller, op \in {"get_order_status", "get_open_orders", "get_positions"},
          order_id \in OrderIdArgs \cup {NoneStr} : Query(c, op, order_id)
    \/ \E c \in OneCaller : EnsureConnected(c)
    \/ \E c \in OneCaller : QueryBody(c)

SpecQueries == InitTracked /\ [][NextQueries]_vars

----------------------------------------------------------------------------
(* Two callers submitting on one executor *)

\* The requests the two callers submit: two well-formed ones that differ in
\* kind, side, price and client id.
PairRequests ==
    { OrderRequest("AAPL", 100, "MARKET", "BUY", None, None, "cid-1"),
      OrderRequest("AAPL", 100, "LIMIT", "SELL", 250, None, NoneStr) }

\* An executor without a risk gate on a manager as constructed, shared by
\* two callers.  The broker's status reports are left out of NextPair: the
\* calls share the manager and the session, not the reports.
InitPair ==
    /\ ib = 0
    /\ connected = FALSE
    /\ sessions = <<>>
    /\ trades = <<>>
    /\ audit = <<>>
    /\ riskConfigured = FALSE
    /\ settings = DefaultSettings
    /\ call = [c \in TwoCallers |-> IdleCall]
    /\ started = 0

NextPair ==
    \/ \E c \in TwoCallers, request \in PairRequests : SubmitOrder(c, request)
    \/ \E c \in TwoCallers : EnsureConnected(c)
    \/ \E c \in TwoCallers : ConnectOk(c)
    \/ \E c \in TwoCallers : ConnectFail(c)
    \/ \E c \in TwoCallers : PlaceOrder(c)
    \/ \E c \in TwoCallers : AfterGrace(c)
    \/ TransportDrop

SpecPair == InitPair /\ [][NextPair]_vars

----------------------------------------------------------------------------
(* The connection manager driven directly *)

NextManager ==
    \/ \E c \in OneCaller : Connect(c)
    \/ \E c \in OneCaller : Ensure(c)
    \/ \E c \in OneCaller : ConnectWithRetry(c)
    \/ \E c \in OneCaller : RetryWake(c)
    \/ \E c \in OneCaller : EnsureConnected(c)
    \/ \E c \in OneCaller : ConnectOk(c)
    \/ \E c \in OneCaller : ConnectFail(c)
    \/ \E c \in OneCaller : Disconnect(c)
    \/ \E c \in OneCaller : AskIsConnected(c)
    \/ \E c \in OneCaller : AskIbClient(c)
    \/ TransportDrop

\* Largest max_reconnect_attempts a manager is constructed with.
MaxReconnect == 3

\* The constructor validates nothing: max_reconnect_attempts is any integer
\* (zero and negative included), reconnect_backoff_seconds any duration.
ManagerSettings ==
    [max_reconnect_attempts : -1..MaxReconnect, reconnect_backoff_seconds : {0, 1, 5}]

\* No executor is attached: a manager as constructed, with any settings.
InitManager ==
    /\ ib = 0
    /\ connected = FALSE
    /\ sessions = <<>>
    /\ trades = <<>>
    /\ audit = <<>>
    /\ riskConfigured = FALSE
    /\ settings \in ManagerSettings
    /\ call = [c \in OneCaller |-> IdleCall]
    /\ started = 0

SpecManager == InitManager /\ [][NextManager]_vars

\* The awaits of the manager come back: connectAsync returns or raises (it
\* has a timeout), asyncio.sleep returns, and a call that is not suspended
\* runs on.
SpecManagerLive ==
    /\ InitManager
    /\ [][NextManager]_vars
    /\ \A c \in OneCaller :
          /\ WF_vars(ConnectOk(c) \/ ConnectFail(c))
          /\ WF_vars(RetryWake(c))
          /\ WF_vars(EnsureConnected(c))

----------------------------------------------------------------------------
(* Properties *)

Done(c) == call[c].pc = "done"

Submitting(c) == call[c].op = "submit_order"

\* The number of audit records of the given kind the call emitted.
Events(c, kind) == Len(SelectSeq(call[c].logged, LAMBDA r : r.event = kind))

RaisedClass(c, cls) == call[c].out.kind = "raise" /\ call[c].out.exc.cls = cls

\* C1: once the risk callback has returned false, the submit_order call has
\* ended without invoking ensure_connected, connect, get_ib_client or
\* placeOrder, whatever the state of the connection.
C1_RiskRejectTouchesNoBroker ==
    \A c \in Callers :
        (Submitting(c) /\ call[c].riskResult = "false") =>
            /\ Done(c)
            /\ call[c].nEnsure = 0 /\ call[c].nConnect = 0
            /\ call[c].nGetClient = 0 /\ call[c].nPlace = 0
            /\ call[c].placed = 0

\* A request was risk-rejected while the manager was connected.
C1_Witness ==
    \E c \in Callers :
        Submitting(c) /\ Done(c) /\ call[c].riskResult = "false" /\ IsConnected

\* C2: a submit_order call whose risk gate returned false invoked the gate
\* once, recorded exactly one RISK_CHECK_FAILED and no ORDER_SUBMITTED event,
\* and raised RiskCheckError.
C2_RiskRejectLoggedThenRaised ==
    \A c \in Callers :
        (Submitting(c) /\ Done(c) /\ call[c].riskResult = "false") =>
            /\ call[c].nRisk = 1
            /\ Events(c, "RISK_CHECK_FAILED") = 1
            /\ Events(c, "ORDER_SUBMITTED") = 0
            /\ RaisedClass(c, "RiskCheckError")

\* C3: a submit_order call whose ensure_connected failed ended with
\* ConnectionError, placed nothing and recorded no ORDER_SUBMITTED event.
C3_EnsureFailureIsConnectionError ==
    \A c \in Callers :
        (Submitting(c) /\ call[c].ensureFailed) =>
            /\ Done(c)
            /\ RaisedClass(c, "ConnectionError")
            /\ call[c].nPlace = 0 /\ call[c].placed = 0
            /\ Events(c, "ORDER_SUBMITTED") = 0

\* ensure_connected failed for a request the risk gate had approved.
C3_Witness ==
    \E c \in Callers :
        Submitting(c) /\ Done(c) /\ call[c].ensureFailed /\ call[c].riskResult = "true"

\* C4: every finished submit_order call returned an Order or raised one of
\* ConnectionError, RiskCheckError, OrderRejectedError, ValueError.
C4_TypedOutcome ==
    \A c \in Callers :
        (Submitting(c) /\ Done(c)) =>
            \/ call[c].out.kind = "return" /\ call[c].out.order # NoOrder
            \/ call[c].out.kind = "raise" /\ call[c].out.exc.cls \in ClassifiedErrors

\* C5: an operation during which an audit-logger call raised ended as it
\* would have with a working logger: a placed order was returned, a risk
\* rejection raised RiskCheckError, an issued cancellation returned.
C5_LoggingFailureChangesNothing ==
    \A c \in Callers :
        (Done(c) /\ call[c].logFailed) =>
            /\ (Submitting(c) /\ call[c].placed # 0) =>
                   /\ call[c].out.kind = "return"
                   /\ call[c].out.order.order_id = Str(call[c].placed)
            /\ (Submitting(c) /\ call[c].riskResult = "false") =>
                   RaisedClass(c, "RiskCheckError")
            /\ (call[c].op = "cancel_order" /\ call[c].nCancel > 0) =>
                   call[c].out.kind = "return"

\* C6: an exception outside the error taxonomy raised while getting the
\* handle, building the native order or placing it reached the caller as an
\* OrderRejectedError whose cause it is and whose message contains its message.
C6_UnclassifiedIsWrapped ==
    \A c \in Callers :
        (/\ Submitting(c) /\ Done(c)
         /\ call[c].caughtIn \in {"handle", "build", "place"}
         /\ call[c].caught.cls \notin ClassifiedErrors) =>
            /\ RaisedClass(c, "OrderRejectedError")
            /\ call[c].out.exc.cause = call[c].caught
            /\ Contains(call[c].out.exc.msg, call[c].caught.msg)

\* The broker refused a placement.
C6_Witness ==
    \E c \in Callers :
        /\ Submitting(c) /\ Done(c)
        /\ call[c].caughtIn = "place" /\ call[c].caught = BrokerError
        /\ call[c].nPlace = 1

\* C7: an operation whose get_ib_client() found the session disconnected
\* ended with ConnectionError.
C7_DisconnectedHandleIsConnectionError ==
    \A c \in Callers :
        (Done(c) /\ call[c].dropped) => RaisedClass(c, "ConnectionError")

\* C8: a submit_order call for a LIMIT or STOP_LIMIT request without a limit
\* price never returns an Order and never places an order, and no limit order
\* at the broker carries a price that no request gave.
C8_NoLimitPriceNeverPlaced ==
    /\ \A c \in Callers :
        (/\ Submitting(c)
         /\ call[c].request.order_type \in {"LIMIT", "STOP_LIMIT"}
         /\ call[c].request.limit_price = None) =>
            /\ call[c].out.kind # "return"
            /\ call[c].nPlace = 0 /\ call[c].placed = 0
            /\ call[c].pc # "grace"
    /\ \A i \in 1..Len(trades) :
        trades[i].order.cls = "LimitOrder" =>
            trades[i].order.lmtPrice \in { Float(p) : p \in Prices \ {None} }

\* A LIMIT or STOP_LIMIT request without a limit price got as far as the
\* construction of the native order, with the session up, and failed there.
C8_Witness ==
    \E c \in Callers :
        /\ Submitting(c) /\ Done(c)
        /\ call[c].request.order_type \in {"LIMIT", "STOP_LIMIT"}
        /\ call[c].request.limit_price = None
        /\ call[c].caughtIn = "build"
        /\ call[c].out.kind = "raise"

\* C9: a submit_order call that reached native-order construction with a
\* required price missing ended with a ValueError, placed nothing.
C9_MissingPriceIsValueError ==
    \A c \in Callers :
        (/\ Submitting(c) /\ Done(c)
         /\ call[c].caughtIn = "build"
         /\ ~PriceInvariant(call[c].request)) =>
            /\ RaisedClass(c, "ValueError")
            /\ call[c].nPlace = 0

\* C10: every request handed to submit_order (and so to the risk gate)
\* satisfies the price invariant of its kind.
C10_NoInvalidRequestExists ==
    \A c \in Callers : Submitting(c) => PriceInvariant(call[c].request)

\* The operations that only read.
QueryOps == {"get_order_status", "get_open_orders", "get_positions"}

Cancelling(c) == call[c].op = "cancel_order"

\* The calls of the given names in the call's trace, in the order made.
Made(c, names) == SelectSeq(call[c].trace, LAMBDA n : n \in names)

\* C11: once the broker has taken the order of a submit_order call that has
\* ended, the call has recorded exactly one ORDER_SUBMITTED event, with the
\* broker's order id and the request's client id, logged after placeOrder,
\* and has returned an Order with that broker id and the request's
\* client_order_id, symbol, quantity, kind, side and prices.
C11_PlacedIsLoggedOnceAndReturned ==
    \A c \in Callers :
        (Submitting(c) /\ Done(c) /\ call[c].placed # 0) =>
            /\ Events(c, "ORDER_SUBMITTED") = 1
            /\ \A i \in 1..Len(call[c].logged) :
                   /\ call[c].logged[i].order_id = Str(call[c].placed)
                   /\ call[c].logged[i].client_order_id = call[c].request.client_order_id
            /\ Made(c, {"placeOrder", "log_order_submitted"})
                   = <<"placeOrder", "log_order_submitted">>
            /\ call[c].out.kind = "return"
            /\ call[c].out.order.order_id = Str(call[c].placed)
            /\ call[c].out.order.client_order_id = call[c].request.client_order_id
            /\ call[c].out.order.symbol = call[c].request.symbol
            /\ call[c].out.order.quantity = call[c].request.quantity
            /\ call[c].out.order.order_type = call[c].request.order_type
            /\ call[c].out.order.side = call[c].request.side
            /\ call[c].out.order.limit_price = call[c].request.limit_price
            /\ call[c].out.order.stop_price = call[c].request.stop_price

\* C12: an Order returned by submit_order or get_order_status carries the
\* fill the broker reported when the trade was converted and the status that
\* report maps to: PendingSubmit or Submitted with nothing filled gives
\* PENDING or SUBMITTED, a non-empty order id and filled_quantity 0;
\* PartiallyFilled with 50 filled gives PARTIALLY_FILLED and 50.
C12_SnapshotReflectsBrokerReport ==
    \A c \in Callers :
        (Done(c) /\ call[c].op \in {"submit_order", "get_order_status"}
                 /\ call[c].out.kind = "return") =>
            LET order == call[c].out.order
                seen == call[c].seen
            IN  /\ order.filled_quantity = seen.filled
                /\ order.order_id \notin {"", NoneStr}
                /\ (seen.status = "PendingSubmit" => order.status = "PENDING")
                /\ (seen.status = "Submitted" => order.status = "SUBMITTED")
                /\ (seen.status \in {"PendingSubmit", "Submitted"} /\ seen.filled = 0
                      => order.status \in {"SUBMITTED", "PENDING"} /\ order.filled_quantity = 0)
                /\ (seen.status = "PartiallyFilled" /\ seen.filled = 50
                      => order.status = "PARTIALLY_FILLED" /\ order.filled_quantity = 50)
                /\ (seen.status = "Filled" => order.status = "FILLED")
                /\ (seen.status = "Cancelled" => order.status = "CANCELLED")

\* A MARKET BUY of 100 submitted with no risk gate came back partially
\* filled: the broker had filled 50 within the grace period.
C12_Witness ==
    \E c \in Callers :
        /\ Submitting(c) /\ Done(c) /\ ~riskConfigured
        /\ call[c].request.order_type = "MARKET" /\ call[c].request.side = "BUY"
        /\ call[c].request.quantity = 100
        /\ call[c].seen = [status |-> "PartiallyFilled", filled |-> 50]
        /\ call[c].out.kind = "return"
        /\ call[c].out.order.status = "PARTIALLY_FILLED"
        /\ call[c].out.order.filled_quantity = 50

\* C13: a submit_order call that has ended, whose order the broker took and
\* had not acknowledged by the end of the grace period, has returned an Order
\* with status PENDING and has raised nothing.
C13_UnacknowledgedReturnsPending ==
    \A c \in Callers :
        (Submitting(c) /\ Done(c) /\ call[c].placed # 0
                       /\ call[c].seen.status = "PendingSubmit") =>
            /\ call[c].out.kind = "return"
            /\ call[c].out.order.status = "PENDING"

\* C14: no call places, cancels, awaits ensure_connected or attempts to
\* connect more than once, and only submit_order places and only
\* cancel_order cancels, whatever failed on the way.
C14_AtMostOneAttempt ==
    \A c \in Callers :
        /\ call[c].nPlace <= 1 /\ call[c].nCancel <= 1
        /\ call[c].nConnect <= 1 /\ call[c].nEnsure <= 1
        /\ (call[c].nPlace = 1 => Submitting(c))
        /\ (call[c].nCancel = 1 => Cancelling(c))

\* A call ended in failure after its one attempt: the broker refused the
\* order, or the connect attempt failed.
C14_Witness ==
    \E c \in Callers :
        /\ Done(c) /\ call[c].out.kind = "raise"
        /\ \/ Submitting(c) /\ call[c].caughtIn = "place" /\ call[c].nPlace = 1
           \/ Cancelling(c) /\ call[c].ensureFailed /\ call[c].nConnect = 1

\* C15: a cancel_order call that has ended, for an id no tracked trade has,
\* has issued no cancellation and recorded no ORDER_CANCELLED event, and has
\* raised; when it got as far as the search it raised the ValueError
\* "Order <id> not found", and otherwise the ConnectionError that stopped it;
\* never OrderRejectedError.
C15_UnknownIdIsNotFound ==
    \A c \in Callers :
        (Cancelling(c) /\ Done(c) /\ FindTrade(call[c].order_id) = 0) =>
            /\ call[c].nCancel = 0
            /\ Events(c, "ORDER_CANCELLED") = 0
            /\ call[c].out.kind = "raise"
            /\ ~RaisedClass(c, "OrderRejectedError")
            /\ IF call[c].ensureFailed \/ call[c].dropped
               THEN RaisedClass(c, "ConnectionError")
               ELSE call[c].out.exc = ValueError(<<"Order ", call[c].order_id, " not found">>)

\* cancel_order("999") searched a session that tracks another order and
\* raised the not-found error.
C15_Witness ==
    \E c \in Callers :
        /\ Cancelling(c) /\ Done(c) /\ call[c].order_id = "999"
        /\ Len(trades) > 0
        /\ call[c].nGetClient = 1 /\ ~call[c].dropped
        /\ RaisedClass(c, "ValueError")

\* C16: a cancel_order call that has ended, for an order the broker reported
\* filled or cancelled when the call looked it up, has raised an error,
\* issued no cancellation and recorded no ORDER_CANCELLED event.
C16_TerminalOrderIsRefused ==
    \A c \in Callers :
        (Cancelling(c) /\ Done(c) /\ call[c].seen.status \in {"Filled", "Cancelled", "Rejected"}) =>
            /\ call[c].out.kind = "raise"
            /\ call[c].nCancel = 0
            /\ Events(c, "ORDER_CANCELLED") = 0

\* C17: a cancel_order call that returned has awaited ensure_connected once,
\* then issued one cancellation, for the tracked trade whose id is order_id,
\* then recorded one ORDER_CANCELLED event with that id and a reason; and no
\* cancel_order call, returned or not, has logged the event before issuing
\* the cancellation.
C17_CancelThenLog ==
    \A c \in Callers :
        Cancelling(c) =>
            /\ Made(c, {"cancelOrder", "log_order_cancelled"})
                   \in {<<>>, <<"cancelOrder">>, <<"cancelOrder", "log_order_cancelled">>}
            /\ (Done(c) /\ call[c].out.kind = "return") =>
                   /\ Made(c, {"ensure_connected", "cancelOrder", "log_order_cancelled"})
                          = <<"ensure_connected", "cancelOrder", "log_order_cancelled">>
                   /\ call[c].nEnsure = 1 /\ call[c].nCancel = 1
                   /\ call[c].found \in 1..Len(trades)
                   /\ Str(trades[call[c].found].order.orderId) = call[c].order_id
                   /\ Events(c, "ORDER_CANCELLED") = 1
                   /\ Len(call[c].logged) = 1
                   /\ call[c].logged[1].order_id = call[c].order_id
                   /\ call[c].logged[1].reason # <<>>

\* cancel_order("1") returned for an order the broker was still working.
C17_Witness ==
    \E c \in Callers :
        /\ Cancelling(c) /\ Done(c) /\ call[c].out.kind = "return"
        /\ call[c].order_id = "1" /\ call[c].found = 1
        /\ call[c].seen.status \in {"PendingSubmit", "Submitted", "PartiallyFilled"}

\* The steps of a query call leave the broker's orders and the audit trail
\* as they are.
QueryStepsChangeNothing ==
    \A c \in Callers :
        (call'[c].op \in QueryOps /\ call'[c] # call[c]) =>
            (trades' = trades /\ audit' = audit)

\* A query call has placed and cancelled nothing, has not invoked the risk
\* gate and has logged nothing.
QueryDidNothing ==
    \A c \in Callers :
        call[c].op \in QueryOps =>
            /\ call[c].nPlace = 0 /\ call[c].nCancel = 0 /\ call[c].nRisk = 0
            /\ call[c].logged = <<>>
            /\ Made(c, {"placeOrder", "cancelOrder", "risk_check"}) = <<>>

\* C18: get_order_status, get_open_orders and get_positions never place or
\* cancel, never invoke the risk gate and never record an audit event, and
\* every step of such a call leaves the broker's trades, their statuses
\* included, and the audit trail unchanged.
C18_QueriesAreReadOnly == []QueryDidNothing /\ [][QueryStepsChangeNothing]_vars

\* A query returned while the broker tracked an order and the audit trail
\* held a record.
C18_Witness ==
    \E c \in Callers :
        /\ call[c].op \in QueryOps /\ Done(c) /\ call[c].out.kind = "return"
        /\ Len(trades) > 0 /\ Len(audit) > 0

\* The mapping of broker statuses to domain statuses, as a table.
StatusTable ==
    [st \in StatusInputs |->
        CASE st = "PendingSubmit" -> "PENDING"
          [] st \in {"Submitted", "PreSubmitted"} -> "SUBMITTED"
          [] st = "PartiallyFilled" -> "PARTIALLY_FILLED"
          [] st = "Filled" -> "FILLED"
          [] st = "Cancelled" -> "CANCELLED"
          [] st \in {"Rejected", "Inactive"} -> "REJECTED"
          [] OTHER -> "PENDING"]

\* C19: whatever status string the broker reports for a tracked trade,
\* get_order_status of that trade does not fail in the mapping: it returns
\* an Order whose status is the one the table gives (PENDING for every
\* string the table does not list), unless the session was lost.
C19_StatusMappingIsTotal ==
    \A c \in Callers :
        (call[c].op = "get_order_status" /\ Done(c) /\ ~call[c].dropped
            /\ ~call[c].ensureFailed /\ FindTrade(call[c].order_id) # 0) =>
            /\ call[c].out.kind = "return"
            /\ call[c].seen.status \in StatusInputs
            /\ call[c].out.order.status = StatusTable[call[c].seen.status]
            /\ call[c].out.order.status \in
                  {"PENDING", "SUBMITTED", "PARTIALLY_FILLED", "FILLED", "CANCELLED", "REJECTED"}

\* get_order_status returned REJECTED for a trade the broker reports Inactive.
C19_Witness ==
    \E c \in Callers :
        /\ call[c].op = "get_order_status" /\ Done(c)
        /\ call[c].seen.status = "Inactive"
        /\ call[c].out.kind = "return" /\ call[c].out.order.status = "REJECTED"

\* A connect() that raised has raised ConnectionError caused by the
\* transport's exception and has left the manager disconnected.
FailedConnectLeavesDisconnected ==
    \A c \in Callers :
        (call[c].op = "connect" /\ Done(c) /\ call[c].out.kind = "raise") =>
            /\ call[c].out.exc.cls = "ConnectionError"
            /\ call[c].out.exc.cause = TransportError
            /\ ~IsConnected
            /\ ~connected
            /\ GetIbClient.exc.cls = "ConnectionError"

\* What is_connected() and get_ib_client() gave when called right after a
\* connect() that raised: False, and ConnectionError.
AskedAfterFailedConnect ==
    \A c \in Callers :
        (Done(c) /\ call[c].retry) =>
            /\ (call[c].op = "is_connected" => call[c].out.list = <<FALSE>>)
            /\ (call[c].op = "get_ib_client" => RaisedClass(c, "ConnectionError"))

\* A connect() that returns leaves the manager connected.
ConnectReturnsConnected ==
    \A c \in Callers :
        (call[c].op = "connect" /\ call[c].pc = "connecting"
            /\ call'[c].pc = "done" /\ call'[c].out.kind = "return") => IsConnected'

\* C20: when connect() fails it raises ConnectionError with the underlying
\* exception as its cause and the manager is disconnected: is_connected() is
\* false and get_ib_client() raises ConnectionError; a connect() that then
\* returns, a repeated one included, leaves is_connected() true.
C20_FailedConnectCanBeRepeated ==
    /\ []FailedConnectLeavesDisconnected
    /\ []AskedAfterFailedConnect
    /\ [][ConnectReturnsConnected]_vars

\* connect() was called again after a failed connect() and succeeded.
C20_Witness ==
    \E c \in Callers :
        /\ call[c].op = "connect" /\ Done(c) /\ call[c].retry
        /\ call[c].out.kind = "return" /\ IsConnected

\* C21: every disconnect() call has returned without an error, from whatever
\* state it was made in (never connected, connected, disconnected before),
\* has closed a session at most once, and none when it followed another
\* disconnect(); after it is_connected() is false.
C21_DisconnectIsIdempotent ==
    \A c \in Callers :
        (call[c].op = "disconnect" /\ Done(c)) =>
            /\ call[c].out.kind = "return"
            /\ ~IsConnected
            /\ call[c].nClose <= 1
            /\ (call[c].prev = "disconnect" => call[c].nClose = 0)
            /\ (ib = 0 => call[c].nClose = 0)

\* disconnect() was called twice in a row on a manager that had connected.
C21_Witness ==
    \E c \in Callers :
        /\ call[c].op = "disconnect" /\ Done(c) /\ call[c].prev = "disconnect"
        /\ started = 3 /\ ib # 0 /\ sessions[ib] = "closed"
        /\ call[c].out.kind = "return"

\* The step that evaluates `if not self.is_connected()`: a connected manager
\* is left as it is and no connect is attempted; otherwise exactly one
\* connect attempt starts.
EnsureDecides ==
    \A c \in Callers :
        (call[c].pc = "ensure" /\ call'[c] # call[c]) =>
            IF IsConnected
            THEN /\ call'[c].nConnect = call[c].nConnect
                 /\ call'[c].pc # "connecting"
                 /\ sessions' = sessions /\ ib' = ib
            ELSE /\ call'[c].nConnect = call[c].nConnect + 1
                 /\ call'[c].pc = "connecting"

\* An ensure_connected() call attempts to connect at most once and never
\* sleeps; when it raised, it raised ConnectionError after its one attempt.
EnsureAttemptsOnce ==
    \A c \in Callers :
        call[c].op = "ensure_connected" =>
            /\ call[c].nConnect <= 1 /\ call[c].nEnsure <= 1
            /\ Made(c, {"sleep"}) = <<>>
            /\ (Done(c) /\ call[c].out.kind = "raise") =>
                   /\ RaisedClass(c, "ConnectionError")
                   /\ call[c].nConnect = 1
                   /\ Made(c, {"connect"}) = <<"connect">>

\* C22: ensure_connected() makes no connect attempt when is_connected() is
\* true and exactly one when it is false; when that attempt fails it raises
\* ConnectionError without sleeping or attempting again.
C22_EnsureIsSingleAttempt == []EnsureAttemptsOnce /\ [][EnsureDecides]_vars

\* ensure_connected() on a disconnected manager failed after one attempt.
C22_Witness ==
    \E c \in Callers :
        /\ call[c].op = "ensure_connected" /\ Done(c)
        /\ RaisedClass(c, "ConnectionError") /\ call[c].nConnect = 1

Retrying(c) == call[c].op = "connect_with_retry"

RECURSIVE Pow2(_)
Pow2(n) == IF n <= 0 THEN 1 ELSE 2 * Pow2(n - 1)

\* C23: a connect_with_retry() call whose first k connect attempts failed and
\* whose next one succeeded has returned, with k < max_reconnect_attempts,
\* after k + 1 connect attempts and k sleeps of base, 2*base, ...,
\* 2^(k-1)*base seconds in this order, each sleep between two attempts;
\* the durations increase strictly when base > 0.
C23_BackoffDoubles ==
    \A c \in Callers :
        (Retrying(c) /\ Done(c) /\ call[c].nConnect > call[c].attempt) =>
            LET k == call[c].attempt
                base == settings.reconnect_backoff_seconds
                steps == Made(c, {"connect", "sleep"})
            IN  /\ call[c].out.kind = "return"
                /\ k < settings.max_reconnect_attempts
                /\ call[c].nConnect = k + 1
                /\ Len(call[c].sleeps) = k
                /\ \A i \in 1..k : call[c].sleeps[i] = Pow2(i - 1) * base
                /\ base > 0 => \A i \in 1..(k - 1) : call[c].sleeps[i] < call[c].sleeps[i + 1]
                /\ Len(steps) = 2 * k + 1
                /\ \A i \in 1..Len(steps) :
                       steps[i] = IF i % 2 = 1 THEN "connect" ELSE "sleep"

\* With max_reconnect_attempts = 3 and a base of 5 seconds two attempts
\* failed and the third succeeded: sleeps of 5 and 10 seconds.
C23_Witness ==
    \E c \in Callers :
        /\ Retrying(c) /\ Done(c) /\ call[c].out.kind = "return"
        /\ settings.max_reconnect_attempts = 3
        /\ call[c].nConnect = 3 /\ call[c].sleeps = <<5, 10>>

\* A connect_with_retry() call of a manager with max_reconnect_attempts >= 1
\* never attempts more often than that and sleeps only between attempts;
\* when every attempt failed it has made exactly max attempts and max - 1
\* sleeps, the last step being the failed attempt, and has raised
\* ConnectionError from the last failure.
RetryIsBounded ==
    \A c \in Callers :
        (Retrying(c) /\ settings.max_reconnect_attempts >= 1) =>
            LET max == settings.max_reconnect_attempts
                steps == Made(c, {"connect", "sleep"})
            IN  /\ call[c].nConnect <= max
                /\ Len(call[c].sleeps) <= max - 1
                /\ Len(call[c].sleeps) <= call[c].nConnect
                /\ (Done(c) /\ call[c].attempt = call[c].nConnect) =>
                       /\ RaisedClass(c, "ConnectionError")
                       /\ call[c].out.exc.msg = <<"Failed to connect after ", Str(max), " attempts">>
                       /\ call[c].out.exc.cause = ConnectFailure(TransportError)
                       /\ call[c].nConnect = max
                       /\ Len(call[c].sleeps) = max - 1
                       /\ steps[Len(steps)] = "connect"
                /\ (Done(c) /\ call[c].out.kind = "raise") => call[c].attempt = call[c].nConnect

\* C24: connect_with_retry() is bounded (see RetryIsBounded) and terminates:
\* a call in progress ends.
C24_RetryIsBoundedAndEnds ==
    /\ []RetryIsBounded
    /\ \A c \in OneCaller :
          (Retrying(c) /\ ~Done(c)) ~> (Retrying(c) /\ Done(c))

\* With max_reconnect_attempts = 3 all three attempts failed: two sleeps,
\* then ConnectionError.
C24_Witness ==
    \E c \in Callers :
        /\ Retrying(c) /\ Done(c) /\ RaisedClass(c, "ConnectionError")
        /\ settings.max_reconnect_attempts = 3
        /\ call[c].nConnect = 3 /\ Len(call[c].sleeps) = 2

\* C25: a connect_with_retry() call that has ended has either returned after
\* one of its connect attempts succeeded, the manager being connected, or
\* raised ConnectionError; for every value of max_reconnect_attempts.
C25_ReturnMeansConnected ==
    \A c \in Callers :
        (Retrying(c) /\ Done(c)) =>
            IF call[c].out.kind = "return"
            THEN call[c].nConnect > call[c].attempt /\ connected
            ELSE RaisedClass(c, "ConnectionError")

\* The manager's state as a caller can observe it: CONNECTED when
\* is_connected() is true, CONNECTING while connect() awaits connectAsync on
\* the session the manager holds, DISCONNECTED otherwise.
ManagerState ==
    CASE IsConnected -> "CONNECTED"
      [] ib # 0 /\ sessions[ib] = "new" -> "CONNECTING"
      [] OTHER -> "DISCONNECTED"

\* The step is a disconnect() call.
DisconnectStep == \E c \in Callers : call'[c] # call[c] /\ call'[c].op = "disconnect"

\* The step is the transport reporting a session closed.
ClosureStep ==
    /\ call' = call
    /\ \E i \in 1..Len(sessions) : sessions[i] = "open" /\ sessions'[i] = "closed"

\* The step is a connectAsync raising.
FailureStep ==
    \E c \in Callers :
        /\ call[c].pc = "connecting" /\ call'[c].pc # "connecting"
        /\ sessions'[call[c].pend] = "closed"

\* The transitions of the manager's state machine.
AllowedTransition ==
    \/ ManagerState' = ManagerState
    \/ ManagerState = "DISCONNECTED" /\ ManagerState' = "CONNECTING"
    \/ ManagerState = "CONNECTING" /\ ManagerState' = "CONNECTED"
    \/ ManagerState = "CONNECTING" /\ ManagerState' = "DISCONNECTED" /\ FailureStep
    \/ ManagerState = "CONNECTED" /\ ManagerState' = "DISCONNECTED"
          /\ (DisconnectStep \/ ClosureStep)

\* C26: every step of the manager under connect, ensure_connected,
\* connect_with_retry and disconnect calls is one of DISCONNECTED to
\* CONNECTING, CONNECTING to CONNECTED, CONNECTING to DISCONNECTED on a
\* transport failure, CONNECTED to DISCONNECTED on disconnect() or a
\* transport closure; a CONNECTED manager leaves CONNECTED in no other way.
C26_OnlyStateMachineTransitions == [][AllowedTransition]_vars

\* C28: every session the manager has opened and that is still open is the
\* one the manager holds.
C28_AtMostOneOpenSession ==
    \A i \in 1..Len(sessions) : sessions[i] = "open" => i = ib

\* With two callers whose submit_order calls interleave, no call places
\* more than once, the trade a call placed is built from its own request,
\* two calls in progress never hold the same trade, the broker tracks no
\* more trades than calls were made, and a call that returned has placed
\* once and returned an Order with the id of its own trade and the fields
\* of its own request.
EachCallKeepsItsOwnOrder ==
    /\ Len(trades) <= started
    /\ \A c \in Callers :
          Submitting(c) =>
            /\ call[c].nPlace <= 1
            /\ (call[c].placed # 0) =>
                  /\ call[c].nPlace = 1
                  /\ call[c].placed \in 1..Len(trades)
                  /\ trades[call[c].placed].symbol = call[c].request.symbol
                  /\ trades[call[c].placed].order =
                        [CreateIbOrder(call[c].request).order EXCEPT !.orderId = call[c].placed]
                  /\ \A d \in Callers \ {c} : call[d].placed # call[c].placed
            /\ (Done(c) /\ call[c].out.kind = "return") =>
                  /\ call[c].nPlace = 1 /\ call[c].placed # 0
                  /\ call[c].out.order.order_id = Str(call[c].placed)
                  /\ call[c].out.order.client_order_id = call[c].request.client_order_id
                  /\ call[c].out.order.symbol = call[c].request.symbol
                  /\ call[c].out.order.quantity = call[c].request.quantity
                  /\ call[c].out.order.order_type = call[c].request.order_type
                  /\ call[c].out.order.side = call[c].request.side
                  /\ call[c].out.order.limit_price = call[c].request.limit_price
                  /\ call[c].out.order.stop_price = call[c].request.stop_price

\* Two calls with different requests overlapped and both returned: c1
\* connected the manager, c2 found it connected and yet placed first.
BothReturnedOutOfOrder ==
    /\ Callers = TwoCallers
    /\ \A c \in Callers : Submitting(c) /\ Done(c) /\ call[c].out.kind = "return"
    /\ call["c1"].request # call["c2"].request
    /\ call["c1"].nConnect = 1 /\ call["c2"].nConnect = 0
    /\ call["c1"].placed = 2 /\ call["c2"].placed = 1

\* submit_order goes on from ensure_connected() to get_ib_client() and
\* placeOrder.
GoesOnToPlace(c) ==
    /\ Submitting(c) /\ call[c].pc = "body"
    /\ call'[c].pc # "body"

\* C27: with two callers whose submit_order calls interleave, each request
\* is placed at the broker exactly once: a call that goes on after
\* ensure_connected() while a session of the manager is open places its
\* request, and it never places it twice.
C27_EachRequestPlacedOnce ==
    [][\A c \in TwoCallers :
          /\ (Submitting(c) /\ Callers = TwoCallers) => call'[c].nPlace <= 1
          /\ ( /\ GoesOnToPlace(c) /\ Callers = TwoCallers
               /\ \E i \in 1..Len(sessions) : sessions[i] = "open" )
             => call'[c].nPlace = 1]_vars

\* The order kind the inference is to give for a native order.
InferredKind(native) ==
    CASE native.cls = "MarketOrder" -> "MARKET"
      [] native.cls = "StopOrder" -> "STOP"
      [] native.cls = "LimitOrder" /\ native.auxPrice > 0 -> "STOP_LIMIT"
      [] native.cls = "LimitOrder" /\ ~(native.auxPrice > 0) -> "LIMIT"

\* C29: the Order get_order_status rebuilds from a tracked native order has
\* kind MARKET for a market order, STOP for a stop order, STOP_LIMIT for a
\* limit order whose auxiliary price is greater than zero and LIMIT for any
\* other limit order, and its side is BUY exactly when the native action is
\* BUY.
C29_KindAndSideInferred ==
    \A c \in Callers :
        (call[c].op = "get_order_status" /\ Done(c) /\ call[c].out.kind = "return") =>
            /\ call[c].found \in 1..Len(trades)
            /\ trades[call[c].found].order.cls \in {"MarketOrder", "LimitOrder", "StopOrder"}
            /\ call[c].out.order.order_type = InferredKind(trades[call[c].found].order)
            /\ (call[c].out.order.side = "BUY") <=> (trades[call[c].found].order.action = "BUY")
            /\ call[c].out.order.side \in {"BUY", "SELL"}

\* get_order_status returned kind LIMIT, side SELL for a tracked limit order
\* that has no auxiliary price and sells.
C29_Witness ==
    \E c \in Callers :
        /\ call[c].op = "get_order_status" /\ Done(c) /\ call[c].out.kind = "return"
        /\ call[c].found \in 1..Len(trades)
        /\ trades[call[c].found].order.cls = "LimitOrder"
        /\ trades[call[c].found].order.auxPrice = 0
        /\ trades[call[c].found].order.action = "SELL"
        /\ call[c].out.order.order_type = "LIMIT"
        /\ call[c].out.order.side = "SELL"

\* The request r was submitted and returned as the order the call c asked
\* about: the trade the call found is the one placed for r, and the audit
\* trail holds the ORDER_SUBMITTED record submit_order writes before it
\* returns that order.
AskedAboutSubmitted(c, r) ==
    /\ call[c].op = "get_order_status" /\ Done(c) /\ call[c].out.kind = "return"
    /\ call[c].found \in 1..Len(trades)
    /\ PriceInvariant(r)
    /\ trades[call[c].found].symbol = r.symbol
    /\ trades[call[c].found].order =
          [CreateIbOrder(r).order EXCEPT !.orderId = call[c].found]
    /\ \E i \in 1..Len(audit) :
          /\ audit[i].event = "ORDER_SUBMITTED"
          /\ audit[i].order_id = call[c].order_id

\* C30: for every request that satisfies the price invariant and was
\* submitted and returned with id b, the Order a later get_order_status(b)
\* returns has the request's order kind, side, symbol, quantity, limit price
\* and stop price.
C30_StatusAgreesWithRequest ==
    \A c \in Callers, r \in SubmittedRequests :
        AskedAboutSubmitted(c, r) =>
            /\ call[c].out.order.order_id = call[c].order_id
            /\ call[c].out.order.order_type = r.order_type
            /\ call[c].out.order.side = r.side
            /\ call[c].out.order.symbol = r.symbol
            /\ call[c].out.order.quantity = r.quantity
            /\ call[c].out.order.limit_price = r.limit_price
            /\ call[c].out.order.stop_price = r.stop_price

====
